---- MODULE Spec2Model ----
(***************************************************************************)
(* Model of the rent-info-sheet computation engine (src/compute.py), of    *)
(* the request layer that calls it (src/app.py) and of the unit cache it   *)
(* reads from (src/data_loader.py).                                        *)
(*                                                                         *)
(* Python values are records tagged by their type; a str is a sequence of  *)
(* one-character strings; a Decimal is its (sign, digits, exponent) tuple  *)
(* and Decimal arithmetic rounds to the context precision, as the decimal  *)
(* module does.                                                            *)
(***************************************************************************)
EXTENDS Integers, Sequences, FiniteSets, TLC

(***************************************************************************)
(* Assignment to a local: the value of e, computed once, named in F.       *)
(***************************************************************************)
With(e, F(_)) == CHOOSE r \in {F(x) : x \in {e}} : TRUE

With2(e1, e2, F(_, _)) == CHOOSE r \in {F(x, y) : x \in {e1}, y \in {e2}} : TRUE

\* A sequence given by a formula, computed once.
Tup(f) == f \o <<>>

(***************************************************************************)
(* Text                                                                    *)
(***************************************************************************)
UpperChars == <<"A","B","C","D","E","F","G","H","I","J","K","L","M",
                "N","O","P","Q","R","S","T","U","V","W","X","Y","Z">>

LowerChars == <<"a","b","c","d","e","f","g","h","i","j","k","l","m",
                "n","o","p","q","r","s","t","u","v","w","x","y","z">>

DigitChars == <<"0","1","2","3","4","5","6","7","8","9">>

Whitespace == {" ", "\t", "\n"}

IsDigitChar(c) == c \in {"0","1","2","3","4","5","6","7","8","9"}

DigitVal(c) == (CHOOSE i \in 1..10 : DigitChars[i] = c) - 1

LowerChar(c) ==
  IF \E i \in 1..26 : UpperChars[i] = c
    THEN LowerChars[CHOOSE i \in 1..26 : UpperChars[i] = c]
    ELSE c

\* str.lower()
StrLower(text) ==
  With(text, LAMBDA s : Tup([i \in 1..Len(s) |-> LowerChar(s[i])]))

\* str.strip()
StrStrip(text) ==
  With(text, LAMBDA s :
  With({i \in 1..Len(s) : s[i] \notin Whitespace}, LAMBDA inner :
    IF inner = {} THEN <<>>
    ELSE SubSeq(s, CHOOSE i \in inner : \A j \in inner : i <= j,
                   CHOOSE i \in inner : \A j \in inner : i >= j)))

\* str.replace(old, new) for a one-character old
RECURSIVE StrReplace(_, _, _)
StrReplace(text, old, new) ==
  With(text, LAMBDA s :
    IF Len(s) = 0 THEN <<>>
    ELSE IF Len(s) = 1 THEN (IF s[1] = old THEN new ELSE s)
    ELSE StrReplace(SubSeq(s, 1, Len(s) \div 2), old, new)
           \o StrReplace(SubSeq(s, Len(s) \div 2 + 1, Len(s)), old, new))

\* The text of a str as one string (for dictionary keys).
RECURSIVE Join(_)
Join(text) ==
  With(text, LAMBDA s :
    IF Len(s) = 0 THEN ""
    ELSE IF Len(s) = 1 THEN s[1]
    ELSE Join(SubSeq(s, 1, Len(s) \div 2))
           \o Join(SubSeq(s, Len(s) \div 2 + 1, Len(s))))

(***************************************************************************)
(* Naturals of any size: digit sequences, most significant digit first.    *)
(* Python's int and the coefficient of a Decimal are unbounded.            *)
(***************************************************************************)
Max(a, b) == IF a >= b THEN a ELSE b

Min(a, b) == IF a <= b THEN a ELSE b

Zeros(n) == Tup([i \in 1..n |-> 0])

NatIsZero(digits) == With(digits, LAMBDA a : \A i \in 1..Len(a) : a[i] = 0)

\* The digits without leading zeros (at least one digit).
NatNorm(digits) ==
  With(digits, LAMBDA a :
    IF \A i \in 1..Len(a) : a[i] = 0 THEN <<0>>
    ELSE SubSeq(a, CHOOSE i \in 1..Len(a) :
                     a[i] # 0 /\ \A j \in 1..(i - 1) : a[j] = 0,
                Len(a)))

\* a with zeros on its left, n digits in all (a, n: values at hand)
PadLeft(a, n) == Zeros(n - Len(a)) \o a

\* The carry into digit i of x + y (x, y of one length): some digit to its
\* right overflows and every digit between is a 9.
CarryInto(x, y, i) ==
  \E j \in (i + 1)..Len(x) :
    /\ x[j] + y[j] >= 10
    /\ \A k \in (i + 1)..(j - 1) : x[k] + y[k] = 9

NatAdd(a0, b0) ==
  With2(a0, b0, LAMBDA a, b :
  With(Max(Len(a), Len(b)) + 1, LAMBDA n :
  With2(PadLeft(a, n), PadLeft(b, n), LAMBDA x, y :
    NatNorm(Tup([i \in 1..n |->
              (x[i] + y[i] + (IF CarryInto(x, y, i) THEN 1 ELSE 0)) % 10])))))

\* The borrow from digit i of x - y.
BorrowFrom(x, y, i) ==
  \E j \in (i + 1)..Len(x) :
    /\ x[j] < y[j]
    /\ \A k \in (i + 1)..(j - 1) : x[k] = y[k]

\* a - b for a >= b
NatSub(a0, b0) ==
  With2(a0, b0, LAMBDA a, b :
  With(Max(Len(a), Len(b)), LAMBDA n :
  With2(PadLeft(a, n), PadLeft(b, n), LAMBDA x, y :
    NatNorm(Tup([i \in 1..n |->
              (x[i] - y[i] - (IF BorrowFrom(x, y, i) THEN 1 ELSE 0) + 10) % 10])))))

\* -1, 0 or 1 as a < b, a = b, a > b
NatCmp(a0, b0) ==
  With2(a0, b0, LAMBDA a, b :
  With(Max(Len(a), Len(b)), LAMBDA n :
  With2(PadLeft(a, n), PadLeft(b, n), LAMBDA x, y :
    IF x = y THEN 0
    ELSE With(CHOOSE i \in 1..n : x[i] # y[i] /\ \A j \in 1..(i - 1) : x[j] = y[j],
              LAMBDA k : IF x[k] < y[k] THEN -1 ELSE 1))))

\* The sum of x[i] * y[k - i] over i in lo..hi (x, y: values at hand).
RECURSIVE ColumnSum(_, _, _, _, _)
ColumnSum(x, y, k, lo, hi) ==
  IF lo > hi THEN 0
  ELSE IF lo = hi
    THEN (IF k - lo >= 1 /\ k - lo <= Len(y) THEN x[lo] * y[k - lo] ELSE 0)
  ELSE With((lo + hi) \div 2, LAMBDA mid :
         ColumnSum(x, y, k, lo, mid) + ColumnSum(x, y, k, mid + 1, hi))

\* One pass of carrying: each column keeps its last digit and takes the rest
\* of the column to its right.
CarryPass(columns) ==
  With(columns, LAMBDA c :
    Tup([k \in 1..Len(c) |->
           (c[k] % 10) + (IF k < Len(c) THEN c[k + 1] \div 10 ELSE 0)]))

\* Schoolbook product: column sums, then carries.
NatMul(a0, b0) ==
  With2(a0, b0, LAMBDA a, b :
  With2(Len(a) + Len(b) + 4, PadLeft(a, Len(a) + 4), LAMBDA n, x :
  With(CarryPass(CarryPass(CarryPass(
         Tup([k \in 1..n |-> ColumnSum(x, b, k, 1, Len(x))])))), LAMBDA c3 :
    NatAdd(Tup([k \in 1..n |-> c3[k] % 10]),
           Tup([k \in 1..n |-> IF k < n THEN c3[k + 1] \div 10 ELSE 0])))))

\* a * 10^k
NatShift(a, k) == NatNorm(a \o Zeros(k))

\* A small integer as a digit sequence.
RECURSIVE NatOfInt(_)
NatOfInt(n) == IF n < 10 THEN <<n>> ELSE NatOfInt(n \div 10) \o <<n % 10>>

(***************************************************************************)
(* decimal.Decimal: (sign, digits, exponent), value (-1)^sign * digits *   *)
(* 10^exponent.  Results of arithmetic are rounded to the context          *)
(* precision with the context rounding ROUND_HALF_EVEN.                    *)
(***************************************************************************)
\* decimal.getcontext().prec, the default context compute.py runs under
Prec == 28

Dec(sign, digits, exponent) ==
  [sign |-> sign, digits |-> NatNorm(digits), exponent |-> exponent]

DecZero == Dec(0, <<0>>, 0)

DecIsZero(a) == NatIsZero(a.digits)

\* The number of trailing zeros of a non-zero coefficient.
TrailingZeros(digits) ==
  With(digits, LAMBDA a :
    Len(a) - (CHOOSE i \in 1..Len(a) :
                a[i] # 0 /\ \A j \in (i + 1)..Len(a) : a[j] = 0))

\* The same value with no trailing zero in its coefficient.
Canon(value) ==
  With(value, LAMBDA a :
    IF DecIsZero(a) THEN Dec(a.sign, <<0>>, 0)
    ELSE With(TrailingZeros(a.digits), LAMBDA k :
           Dec(a.sign, SubSeq(a.digits, 1, Len(a.digits) - k), a.exponent + k)))

\* Decimal.__eq__: equality of values (0 and -0 are equal)
DecEq(a0, b0) ==
  With2(a0, b0, LAMBDA a, b :
    IF DecIsZero(a) \/ DecIsZero(b) THEN DecIsZero(a) /\ DecIsZero(b)
    ELSE Canon(a) = Canon(b))

\* How the digits dropped from a coefficient compare with half a unit of the
\* last kept digit: -1 below, 0 exactly half, 1 above.
CmpHalf(digits) ==
  With(digits, LAMBDA dropped :
    IF dropped = <<>> THEN -1
    ELSE IF dropped[1] > 5 THEN 1
    ELSE IF dropped[1] < 5 THEN -1
    ELSE IF NatIsZero(Tail(dropped)) THEN 0 ELSE 1)

\* Decimal._round: the coefficient with its k last digits removed (k < 0
\* appends zeros), rounded as `rounding` says.
RoundCoef(digits0, k0, rounding) ==
  With2(digits0, k0, LAMBDA digits, k :
    IF k <= 0 THEN NatShift(digits, -k)
    ELSE With2(IF k >= Len(digits) THEN <<0>>
                 ELSE SubSeq(digits, 1, Len(digits) - k),
               CmpHalf(IF k > Len(digits) THEN <<>>
                         ELSE SubSeq(digits, Len(digits) - k + 1, Len(digits))),
               LAMBDA kept, half :
           IF CASE rounding = "ROUND_HALF_UP"   -> half >= 0
                [] rounding = "ROUND_HALF_EVEN" ->
                     half > 0 \/ (half = 0 /\ kept[Len(kept)] % 2 = 1)
                [] rounding = "ROUND_DOWN"      -> FALSE
             THEN NatAdd(kept, <<1>>)
             ELSE kept))

\* Decimal._fix: round a result to the context precision.
Fix(value) ==
  With(value, LAMBDA a :
    IF Len(a.digits) <= Prec THEN a
    ELSE With2(Len(a.digits) - Prec,
               RoundCoef(a.digits, Len(a.digits) - Prec, "ROUND_HALF_EVEN"),
               LAMBDA k, r :
           IF Len(r) > Prec
             THEN Dec(a.sign, SubSeq(r, 1, Prec), a.exponent + k + 1)
             ELSE Dec(a.sign, r, a.exponent + k)))

\* The exact sum, before the context rounds it.
ExactAdd(a0, b0) ==
  With2(a0, b0, LAMBDA a, b :
  With(Min(a.exponent, b.exponent), LAMBDA e :
  With2(NatShift(a.digits, a.exponent - e), NatShift(b.digits, b.exponent - e),
        LAMBDA ca, cb :
    IF a.sign = b.sign THEN Dec(a.sign, NatAdd(ca, cb), e)
    ELSE With(NatCmp(ca, cb), LAMBDA c :
           IF c = 0 THEN Dec(0, <<0>>, e)
           ELSE IF c > 0 THEN Dec(a.sign, NatSub(ca, cb), e)
           ELSE Dec(b.sign, NatSub(cb, ca), e)))))

DecNeg(value) == With(value, LAMBDA a : [a EXCEPT !.sign = 1 - a.sign])

\* Decimal.__add__
DecAdd(a, b) == Fix(ExactAdd(a, b))

\* Decimal.__sub__
DecSub(a, b) == DecAdd(a, DecNeg(b))

\* The exact product, before the context rounds it.
ExactMul(a0, b0) ==
  With2(a0, b0, LAMBDA a, b :
    Dec((a.sign + b.sign) % 2, NatMul(a.digits, b.digits),
        a.exponent + b.exponent))

\* Decimal.__mul__
DecMul(a, b) == Fix(ExactMul(a, b))

\* Decimal.__truediv__ by a power of ten (the only divisor the engine uses is
\* Decimal("100")): the quotient has the dividend's digits.
DecDiv(a0, b0) ==
  With2(a0, b0, LAMBDA a, b :
    Fix(Dec((a.sign + b.sign) % 2, a.digits, a.exponent - Canon(b).exponent)))

\* The outcome of an operation that may raise.
Ok(v) == [raised |-> FALSE, value |-> v]

Raise(e) == [raised |-> TRUE, exc |-> e]

\* Decimal.quantize(Decimal("1E<exp>"), rounding): InvalidOperation when the
\* result would have more digits than the context precision.
Quantize(value, exp, rounding) ==
  With(value, LAMBDA a :
    IF DecIsZero(a) THEN Ok(Dec(a.sign, <<0>>, exp))
    ELSE With(RoundCoef(a.digits, exp - a.exponent, rounding), LAMBDA r :
           IF Len(r) > Prec \/ Len(a.digits) + a.exponent - exp > Prec
             THEN Raise("InvalidOperation")
             ELSE Ok(Dec(a.sign, r, exp))))

\* Decimal.to_integral_value() under the context rounding
ToIntegralValue(value) ==
  With(value, LAMBDA a :
    IF a.exponent >= 0 THEN a
    ELSE Dec(a.sign, RoundCoef(a.digits, -a.exponent, "ROUND_HALF_EVEN"), 0))

(***************************************************************************)
(* Python values                                                           *)
(***************************************************************************)
NoneV == [t |-> "None"]

BoolV(b) == [t |-> "bool", b |-> b]

StrV(s) == [t |-> "str", s |-> s]

\* An int: sign and magnitude.
IntV(sign, digits) ==
  With(NatNorm(digits), LAMBDA d :
    [t |-> "int", sign |-> IF d = <<0>> THEN 0 ELSE sign, digits |-> d])

\* A float: the binary64 value nearest to the decimal v.  The floats the
\* program reads (float(text), JSON numbers) are named by their shortest
\* repr, which is that decimal.
FloatV(v) == [t |-> "float", v |-> Canon(v)]

DecV(d) == [t |-> "Decimal", d |-> d]

DigitText(digits) ==
  With(digits, LAMBDA d : Tup([i \in 1..Len(d) |-> DigitChars[d[i] + 1]]))

SignText(sign) == IF sign = 1 THEN <<"-">> ELSE <<>>

\* The exponent part of a repr: e+16, e-05
ExponentText(e) ==
  <<"e", IF e < 0 THEN "-" ELSE "+">>
    \o (IF e > -10 /\ e < 10 THEN <<"0">> ELSE <<>>)
    \o DigitText(NatOfInt(IF e < 0 THEN -e ELSE e))

\* float.__repr__: the shortest digits, in fixed notation when the decimal
\* point falls within -4 < decpt <= 16 and in exponent notation otherwise.
FloatRepr(value) ==
  With(value, LAMBDA v :
  With2(Len(v.digits), Len(v.digits) + v.exponent, LAMBDA n, decpt :
    SignText(v.sign) \o
      (IF DecIsZero(v) THEN <<"0", ".", "0">>
       ELSE IF decpt > 16 \/ decpt < -3
         THEN <<DigitChars[v.digits[1] + 1]>>
                \o (IF n > 1 THEN <<".">> \o DigitText(Tail(v.digits)) ELSE <<>>)
                \o ExponentText(decpt - 1)
       ELSE IF decpt <= 0
         THEN <<"0", ".">> \o DigitText(Zeros(-decpt)) \o DigitText(v.digits)
       ELSE IF decpt < n
         THEN DigitText(SubSeq(v.digits, 1, decpt)) \o <<".">>
                \o DigitText(SubSeq(v.digits, decpt + 1, n))
       ELSE DigitText(v.digits) \o DigitText(Zeros(decpt - n)) \o <<".", "0">>)))

\* str(value)
Str(value0) ==
  With(value0, LAMBDA value :
    CASE value.t = "None"  -> <<"N", "o", "n", "e">>
      [] value.t = "bool"  -> IF value.b THEN <<"T", "r", "u", "e">>
                                         ELSE <<"F", "a", "l", "s", "e">>
      [] value.t = "str"   -> value.s
      [] value.t = "int"   -> SignText(value.sign) \o DigitText(value.digits)
      [] value.t = "float" -> FloatRepr(value.v))

\* The first position from i on that holds no digit (s, i: values at hand).
DigitsEnd(s, i) ==
  IF \A j \in i..Len(s) : IsDigitChar(s[j]) THEN Max(i, Len(s) + 1)
  ELSE CHOOSE j \in i..Len(s) :
         ~IsDigitChar(s[j]) /\ \A k \in i..(j - 1) : IsDigitChar(s[k])

DigitsOf(text) == With(text, LAMBDA s : Tup([i \in 1..Len(s) |-> DigitVal(s[i])]))

RECURSIVE IntOfDigits(_)
IntOfDigits(digits) ==
  With(digits, LAMBDA d :
    IF d = <<>> THEN 0
    ELSE 10 * IntOfDigits(SubSeq(d, 1, Len(d) - 1)) + d[Len(d)])

\* The exponent part of a numeral that starts at s[p]: where it ends and its
\* value; no exponent part leaves p and 0, a malformed one gives end 0.
ExponentPart(s, p) ==
  IF ~(p <= Len(s) /\ s[p] \in {"e", "E"}) THEN <<p, 0>>
  ELSE With(IF p + 1 <= Len(s) /\ s[p + 1] \in {"+", "-"} THEN p + 2 ELSE p + 1,
            LAMBDA p5 :
       With(DigitsEnd(s, p5), LAMBDA p6 :
         IF p6 = p5 THEN <<0, 0>>
         ELSE With(IntOfDigits(DigitsOf(SubSeq(s, p5, p6 - 1))), LAMBDA eval :
                <<p6, IF s[p + 1] = "-" THEN -eval ELSE eval>>)))

\* The numeric-string syntax Decimal(text) and float(text) share: optional
\* sign, digits with an optional point, optional exponent, surrounded by
\* optional whitespace.  (The special literals nan and inf are not part of
\* the inputs modelled here.)
ParseNumber(text) ==
  With(StrStrip(text), LAMBDA s :
  With(IF s # <<>> /\ s[1] \in {"+", "-"} THEN 2 ELSE 1, LAMBDA p1 :
  With(DigitsEnd(s, p1), LAMBDA p2 :
  With(IF p2 <= Len(s) /\ s[p2] = "." THEN p2 + 1 ELSE p2, LAMBDA p3 :
  With(DigitsEnd(s, p3), LAMBDA p4 :
  With(ExponentPart(s, p4), LAMBDA e :
    IF (p2 - p1) + (p4 - p3) > 0 /\ e[1] = Len(s) + 1
      THEN Ok(Dec(IF p1 = 2 /\ s[1] = "-" THEN 1 ELSE 0,
                  DigitsOf(SubSeq(s, p1, p2 - 1) \o SubSeq(s, p3, p4 - 1)),
                  e[2] - (p4 - p3)))
      ELSE Raise("syntax")))))))

\* Decimal(text): InvalidOperation (ConversionSyntax) on anything else
DecimalOfText(text) ==
  With(ParseNumber(StrReplace(text, "_", <<>>)), LAMBDA r :
    IF r.raised THEN Raise("InvalidOperation") ELSE r)

\* float(text): a single underscore may separate two digits; ValueError on
\* anything else
FloatOfText(text) ==
  With(text, LAMBDA s :
    IF \E i \in 1..Len(s) :
         s[i] = "_" /\ ~(/\ i > 1 /\ IsDigitChar(s[i - 1])
                         /\ i < Len(s) /\ IsDigitChar(s[i + 1]))
      THEN Raise("ValueError")
      ELSE With(ParseNumber(StrReplace(s, "_", <<>>)), LAMBDA r :
             IF r.raised THEN Raise("ValueError") ELSE Ok(FloatV(r.value))))

\* float(Decimal)
FloatOfDec(d) == FloatV(d)

\* int(Decimal): truncation toward zero
IntOfDec(value) ==
  With(value, LAMBDA d :
    IntV(d.sign, RoundCoef(d.digits, -d.exponent, "ROUND_DOWN")))

\* int(text): optional sign and digits, where a single underscore may
\* separate two digits, surrounded by optional whitespace; ValueError on
\* anything else
IntOfText(text) ==
  With(StrStrip(text), LAMBDA t :
    IF \E i \in 1..Len(t) :
         t[i] = "_" /\ ~(/\ i > 1 /\ IsDigitChar(t[i - 1])
                         /\ i < Len(t) /\ IsDigitChar(t[i + 1]))
      THEN Raise("ValueError")
      ELSE With(StrReplace(t, "_", <<>>), LAMBDA s :
           With(IF s # <<>> /\ s[1] \in {"+", "-"} THEN 2 ELSE 1, LAMBDA p1 :
             IF p1 <= Len(s) /\ DigitsEnd(s, p1) = Len(s) + 1
               THEN Ok(IntV(IF p1 = 2 /\ s[1] = "-" THEN 1 ELSE 0,
                            DigitsOf(SubSeq(s, p1, Len(s)))))
               ELSE Raise("ValueError"))))

\* int(value), as the engine applies it to wifi_device_limit.  (For a float
\* it truncates the decimal that names it, which is the float's own integer
\* part below 2^53.)
PyInt(value0) ==
  With(value0, LAMBDA value :
    CASE value.t = "int"   -> Ok(value)
      [] value.t = "bool"  -> Ok(IntV(0, IF value.b THEN <<1>> ELSE <<0>>))
      [] value.t = "float" -> Ok(IntOfDec(value.v))
      [] value.t = "None"  -> Raise("TypeError")
      [] value.t = "str"   -> IntOfText(value.s))

(***************************************************************************)
(* src/compute.py                                                          *)
(***************************************************************************)
\* TWO_PLACES = Decimal("0.01"): the exponent quantize() rounds to
TWO_PLACES == -2

\* _d with a default of 0 for what Decimal() does not accept.
CoerceOrZero(value0) ==
  With(value0, LAMBDA value :
    IF value.t = "Decimal" THEN Ok(value.d)
    ELSE With(DecimalOfText(Str(value)), LAMBDA r :
           IF r.raised THEN Ok(DecZero) ELSE r))

\* _d: coerce any value to Decimal
_d(value0) ==
  With(value0, LAMBDA value :
    IF value.t = "Decimal" THEN Ok(value.d) ELSE DecimalOfText(Str(value)))

\* format(n, ","): digits grouped in threes
RECURSIVE Grouped(_)
Grouped(digits0) ==
  With(digits0, LAMBDA digits :
    IF Len(digits) <= 3 THEN DigitText(digits)
    ELSE Grouped(SubSeq(digits, 1, Len(digits) - 3)) \o <<",">>
           \o DigitText(SubSeq(digits, Len(digits) - 2, Len(digits))))

\* f"{n:,}" of an int
FormatInt(value) == With(value, LAMBDA n : SignText(n.sign) \o Grouped(n.digits))

\* f"{rounded:,.2f}" of a Decimal that has two decimal places
FormatFixed2(value) ==
  With(value, LAMBDA rounded :
  With(PadLeft(rounded.digits, Max(Len(rounded.digits), 3)), LAMBDA c :
    SignText(rounded.sign) \o Grouped(SubSeq(c, 1, Len(c) - 2)) \o <<".">>
      \o DigitText(SubSeq(c, Len(c) - 1, Len(c)))))

\* _money deciding "whole" on the amount it was given, not on the rounded one.
MoneyWholeOfInput(value0) ==
  With(value0, LAMBDA value :
  With(Quantize(value, TWO_PLACES, "ROUND_HALF_UP"), LAMBDA q :
    IF q.raised THEN q
    ELSE IF DecEq(value, ToIntegralValue(value))
      THEN Ok(<<"$">> \o FormatInt(IntOfDec(q.value)))
      ELSE Ok(<<"$">> \o FormatFixed2(q.value))))

\* _money: $1,234.56, or $1,234 when the rounded amount is whole
_money(value) ==
  With(Quantize(value, TWO_PLACES, "ROUND_HALF_UP"), LAMBDA q :
    IF q.raised THEN q
    ELSE With(q.value, LAMBDA rounded :
           IF DecEq(rounded, ToIntegralValue(rounded))
             THEN Ok(<<"$">> \o FormatInt(IntOfDec(rounded)))
             ELSE Ok(<<"$">> \o FormatFixed2(rounded))))

\* A dict: a function from keys to values.
DictV(d) == [t |-> "dict", d |-> d]

\* dict.get(key, default) (d, key: values at hand)
DictGet(d, key, default) == IF key \in DOMAIN d THEN d[key] ELSE default

\* {**d, **updates}, dict.update(updates)
DictUpdate(d0, updates0) ==
  With2(d0, updates0, LAMBDA d, updates :
    [k \in DOMAIN d \cup DOMAIN updates |->
       IF k \in DOMAIN updates THEN updates[k] ELSE d[k]])

\* bool(value)
Truthy(value0) ==
  With(value0, LAMBDA value :
    CASE value.t = "None"    -> FALSE
      [] value.t = "bool"    -> value.b
      [] value.t = "str"     -> value.s # <<>>
      [] value.t = "int"     -> ~NatIsZero(value.digits)
      [] value.t = "float"   -> ~DecIsZero(value.v)
      [] value.t = "Decimal" -> ~DecIsZero(value.d)
      [] value.t = "dict"    -> DOMAIN value.d # {})

\* v in (None, "")
IsBlank(v) == v \in {NoneV, StrV(<<>>)}

\* The merge with `if v:` in place of `if v not in (None, "")`.
MergeIfTruthy(unit0, overrides0) ==
  With2(unit0, overrides0, LAMBDA unit, overrides :
    IF Truthy(overrides)
      THEN With({k \in DOMAIN overrides.d : Truthy(overrides.d[k])},
                LAMBDA applied :
             [k \in DOMAIN unit \cup applied |->
                IF k \in applied THEN overrides.d[k] ELSE unit[k]])
      ELSE unit)

\* compute_unit_totals, "Merge: overrides win": data after the loop
Merge(unit0, overrides0) ==
  With2(unit0, overrides0, LAMBDA unit, overrides :
    IF Truthy(overrides)
      THEN With({k \in DOMAIN overrides.d : ~IsBlank(overrides.d[k])},
                LAMBDA applied :
             [k \in DOMAIN unit \cup applied |->
                IF k \in applied THEN overrides.d[k] ELSE unit[k]])
      ELSE unit)

\* The unit dict after the call if the loop wrote into the dict it was given.
UnitMergedInPlace(unit, overrides) == Merge(unit, overrides)

\* The unit dict after the call: data is a copy ({**unit}), so the loop's
\* writes to data leave the caller's dict as it was.
UnitAfterMerge(unit, overrides) == unit

INT_0 == IntV(0, <<0>>)

\* A default of 0 for the holding percentage, like the other defaults.
PercentDefaultZero == IntV(0, <<0>>)

\* The default of data.get("holding_fee_percent", 25)
INT_25 == IntV(0, <<2, 5>>)

DEC_100 == Dec(0, <<1, 0, 0>>, 0)

INCLUDED_IN_RENT ==
  StrV(<<"I","n","c","l","u","d","e","d"," ","i","n"," ","R","e","n","t">>)

NOT_INCLUDED == StrV(<<"N","o","t"," ","I","n","c","l","u","d","e","d">>)

\* The holding fee rounded as the context rounds, half even.
HoldingFeeHalfEven(base_rent, holding_pct) ==
  Quantize(DecDiv(DecMul(base_rent, holding_pct), DEC_100),
           TWO_PLACES, "ROUND_HALF_EVEN")

\* holding_fee = (base_rent * holding_pct / Decimal("100")).quantize(...)
HoldingFee(base_rent, holding_pct) ==
  Quantize(DecDiv(DecMul(base_rent, holding_pct), DEC_100),
           TWO_PLACES, "ROUND_HALF_UP")

\* The move-in total without the last month's rent.
TotalWithoutLastMonth(first_month, last_month, security_dep, app_fee, cleaning_fee) ==
  DecAdd(DecAdd(DecAdd(first_month, security_dep), app_fee), cleaning_fee)

\* total_move_in = first_month + last_month + security_dep + app_fee + cleaning_fee
TotalMoveIn(first_month, last_month, security_dep, app_fee, cleaning_fee) ==
  DecAdd(DecAdd(DecAdd(DecAdd(first_month, last_month), security_dep), app_fee),
         cleaning_fee)

\* remaining = total_move_in - holding_fee
Remaining(total_move_in, holding_fee) == DecSub(total_move_in, holding_fee)

\* The label with the loader's reading of the flag: "y" is a yes too.
UtilitiesLabelAsLoader(data) ==
  With(DictGet(data, "utilities_included", BoolV(FALSE)), LAMBDA raw :
    IF IF raw.t = "str"
         THEN StrLower(StrStrip(raw.s))
                \in {<<"y","e","s">>, <<"y">>, <<"t","r","u","e">>, <<"1">>}
         ELSE Truthy(raw)
      THEN INCLUDED_IN_RENT
      ELSE DictGet(data, "utilities_text", NOT_INCLUDED))

\* "Utilities label" (data: a value at hand)
UtilitiesLabel(data) ==
  With(DictGet(data, "utilities_included", BoolV(FALSE)), LAMBDA raw :
    IF IF raw.t = "str"
         THEN StrLower(StrStrip(raw.s))
                \in {<<"y","e","s">>, <<"t","r","u","e">>, <<"1">>}
         ELSE Truthy(raw)
      THEN INCLUDED_IN_RENT
      ELSE DictGet(data, "utilities_text", NOT_INCLUDED))

\* f"{int(holding_pct)}%"
HoldingPctFmt(holding_pct) == Str(IntOfDec(holding_pct)) \o <<"%">>

\* The first exception raised by steps evaluated in order, if any.
FirstRaised(steps0) ==
  With(steps0, LAMBDA steps :
    IF \A i \in 1..Len(steps) : ~steps[i].raised THEN Ok(steps)
    ELSE steps[CHOOSE i \in 1..Len(steps) :
                 steps[i].raised /\ \A j \in 1..(i - 1) : ~steps[j].raised])

\* _money(_d(data.get(key, 0))) (data: a value at hand)
MoneyOfField(data, key) ==
  With(_d(DictGet(data, key, INT_0)), LAMBDA d :
    IF d.raised THEN d ELSE _money(d.value))

\* The context when a merged field keeps its value against an entry of the
\* same name.
ContextKeepingFields(data, entries) == DictUpdate(entries, data)

\* ctx = {**data}; ctx.update(entries)
ContextOf(data, entries) == DictUpdate(data, entries)

\* compute_unit_totals, "Build context": ctx = {**data}; ctx.update({...})
\* with the values derived above (all of them values at hand)
BuildContext(data, base_rent, security_dep, app_fee, cleaning_fee, holding_pct, holding_fee, total_move_in, remaining, utilities_label) ==
  With(FirstRaised(<<_money(base_rent), _money(base_rent), _money(base_rent),
                     _money(security_dep), _money(app_fee), _money(cleaning_fee),
                     _money(holding_fee), _money(total_move_in),
                     _money(remaining), _money(base_rent),
                     MoneyOfField(data, "parking_monthly_cost"),
                     MoneyOfField(data, "wifi_monthly_cost"),
                     PyInt(DictGet(data, "wifi_device_limit", INT_0)),
                     MoneyOfField(data, "pet_rent_monthly")>>), LAMBDA made :
    IF made.raised THEN made
    ELSE With(made.value, LAMBDA v :
      Ok(ContextOf(data,
        [base_rent_fmt            |-> StrV(v[1].value),
         first_month_rent_fmt     |-> StrV(v[2].value),
         last_month_rent_fmt      |-> StrV(v[3].value),
         security_deposit_fmt     |-> StrV(v[4].value),
         application_fee_fmt      |-> StrV(v[5].value),
         cleaning_fee_fmt         |-> StrV(v[6].value),
         holding_fee_fmt          |-> StrV(v[7].value),
         total_move_in_fmt        |-> StrV(v[8].value),
         remaining_fmt            |-> StrV(v[9].value),
         total_monthly_fmt        |-> StrV(v[10].value),
         holding_pct_fmt          |-> StrV(HoldingPctFmt(holding_pct)),
         first_month_rent         |-> FloatOfDec(base_rent),
         last_month_rent          |-> FloatOfDec(base_rent),
         holding_fee              |-> FloatOfDec(holding_fee),
         total_move_in            |-> FloatOfDec(total_move_in),
         remaining_after_hold     |-> FloatOfDec(remaining),
         total_monthly            |-> FloatOfDec(base_rent),
         utilities_label          |-> utilities_label,
         parking_monthly_cost_fmt |-> StrV(v[11].value),
         wifi_monthly_cost_fmt    |-> StrV(v[12].value),
         wifi_device_limit        |-> v[13].value,
         pet_rent_monthly_fmt     |-> StrV(v[14].value)]))))

\* compute_unit_totals, "Derived amounts" to the end, from the pulled values
\* (all of them values at hand)
Derive(data, base_rent, security_dep, app_fee, cleaning_fee, holding_pct) ==
  With(HoldingFee(base_rent, holding_pct), LAMBDA holding_fee :
    IF holding_fee.raised THEN holding_fee
    ELSE With(TotalMoveIn(base_rent, base_rent, security_dep, app_fee,
                          cleaning_fee), LAMBDA total_move_in :
         With2(Remaining(total_move_in, holding_fee.value), UtilitiesLabel(data),
               LAMBDA remaining, utilities_label :
           BuildContext(data, base_rent, security_dep, app_fee, cleaning_fee,
                        holding_pct, holding_fee.value, total_move_in,
                        remaining, utilities_label))))

\* compute_unit_totals(unit, overrides): the context, or the exception raised
compute_unit_totals(unit, overrides) ==
  With(Merge(unit, overrides), LAMBDA data :
  With(FirstRaised(<<_d(DictGet(data, "base_rent", INT_0)),
                     _d(DictGet(data, "security_deposit", INT_0)),
                     _d(DictGet(data, "application_fee", INT_0)),
                     _d(DictGet(data, "cleaning_fee", INT_0)),
                     _d(DictGet(data, "holding_fee_percent", INT_25))>>),
       LAMBDA pulled :
    IF pulled.raised THEN pulled
    ELSE With(pulled.value, LAMBDA v :
           Derive(data, v[1].value, v[2].value, v[3].value, v[4].value,
                  v[5].value))))

(***************************************************************************)
(* src/data_loader.py                                                      *)
(***************************************************************************)
BOOLEAN_FIELDS ==
  {"utilities_included", "electric_included", "parking_optional",
   "parking_available", "wifi_optional", "wifi_cancel_anytime", "cats_allowed",
   "dogs_allowed", "breed_restrictions_apply"}

NUMERIC_FIELDS ==
  {"base_rent", "wsg_monthly", "security_deposit", "application_fee",
   "cleaning_fee", "holding_fee_percent", "parking_monthly_cost",
   "wifi_monthly_cost", "wifi_device_limit", "pet_rent_monthly"}

\* _normalize_header: header.strip().lower().replace(" ", "_")
_normalize_header(header) == StrReplace(StrLower(StrStrip(header)), " ", <<"_">>)

\* _to_bool: value.strip().lower() in ("yes", "y", "true", "1")
_to_bool(value) ==
  BoolV(StrLower(StrStrip(value))
          \in {<<"y","e","s">>, <<"y">>, <<"t","r","u","e">>, <<"1">>})

\* _to_number: strip currency symbols and commas, return float
_to_number(value) ==
  With(StrReplace(StrReplace(StrStrip(value), "$", <<>>), ",", <<>>),
       LAMBDA cleaned :
    IF cleaned = <<>> THEN Ok(FloatV(DecZero)) ELSE FloatOfText(cleaned))

\* One cell of _parse_row: the typed value stored under the normalized key.
\* raw_val is a str, or None for a cell the row is missing.
ParseCell(key0, raw_val) ==
  With2(key0, IF Truthy(raw_val) THEN StrStrip(raw_val.s) ELSE <<>>,
        LAMBDA key, val :
    IF key \in BOOLEAN_FIELDS THEN Ok(_to_bool(val))
    ELSE IF key \in NUMERIC_FIELDS THEN _to_number(val)
    ELSE Ok(StrV(val)))

\* The last column of a row (keys: its normalized headers) named k.
LastNamed(keys, k) ==
  CHOOSE i \in 1..Len(keys) : keys[i] = k /\ \A j \in (i + 1)..Len(keys) : keys[j] # k

\* _parse_row: a CSV row, a sequence of (header, cell) pairs, as a typed unit
\* dict; a later column of the same normalized name overwrites an earlier
\* one; the first cell float() rejects raises ValueError.
_parse_row(row0) ==
  With(row0, LAMBDA row :
  With(Tup([i \in 1..Len(row) |-> Join(_normalize_header(row[i][1]))]),
       LAMBDA keys :
  With(FirstRaised(Tup([i \in 1..Len(row) |-> ParseCell(keys[i], row[i][2])])),
       LAMBDA cells :
    IF cells.raised THEN cells
    ELSE Ok([k \in {keys[i] : i \in 1..Len(row)} |->
               cells.value[LastNamed(keys, k)].value]))))

(***************************************************************************)
(* The calls made: argument values of every kind the callers can pass.     *)
(* Units come from _parse_row (floats, bools, strs) or are built by hand;  *)
(* overrides come from a JSON body, whose numeric fields app.py has         *)
(* converted to float where float() accepts them.                           *)
(***************************************************************************)
\* The float written n * 10^e
Flt(sign, n, e) == FloatV(Dec(sign, NatOfInt(n), e))

EmptyDict == [k \in {} |-> NoneV]

ABC == StrV(<<"a", "b", "c">>)

\* Amounts of every shape: whole, with cents, with a third decimal, long
\* floats whose sums and products need more than Prec digits, amounts too
\* large to quantize, a negative amount, and texts that are not numbers.
NumberValues ==
  { Flt(0, 0, 0), Flt(0, 1000, 0), Flt(0, 99999, -2), Flt(0, 1500, 0),
    Flt(0, 12345, -1), Flt(0, 5, -3), Flt(0, 1233996, -3), Flt(0, 1, 13),
    FloatV(Dec(0, <<4,9,9,9,9,9,9,9,9,9,9,9,9,9,9,9>>, -18)),
    FloatV(Dec(0, <<9,9,9,9,9,9,9,9,9,9,9,9,9,9,9>>, -17)),
    FloatV(Dec(0, <<5,0,0,0,0,0,0,0,0,0,0,0,0,0,0,5>>, -14)),
    Flt(0, 1, 26), Flt(1, 5, -1),
    IntV(0, <<0>>), IntV(0, <<2, 5>>), IntV(0, <<3, 3>>), IntV(0, <<1, 5, 0, 0>>),
    ABC, StrV(<<" ", "1", "2", " ">>), StrV(<<"1", ",", "2", "0", "0">>),
    BoolV(TRUE), DecV(Dec(0, <<1, 2, 3, 4, 5, 0>>, -2)) }

FewNumberValues ==
  { Flt(0, 0, 0), Flt(0, 25, 0), Flt(0, 12345, -3), Flt(0, 1, 26), ABC }

LimitValues ==
  { Flt(0, 5, 0), Flt(0, 35, -1), Flt(1, 5, -1), IntV(0, <<3>>), BoolV(TRUE),
    StrV(<<" ", "7", " ">>), StrV(<<"3", ".", "5">>), ABC }

YES == StrV(<<"Y", "e", "s">>)

TENANT_PAYS ==
  StrV(<<"T","e","n","a","n","t"," ","p","a","y","s"," ",
         "e","l","e","c","t","r","i","c">>)

FlagValues ==
  { BoolV(TRUE), BoolV(FALSE), YES, StrV(<<"y", "e", "s">>),
    StrV(<<"T", "R", "U", "E">>), StrV(<<"1">>), StrV(<<" ", "y", "e", "s", " ">>),
    StrV(<<"n", "o">>), StrV(<<"y">>), IntV(0, <<1>>), IntV(0, <<0>>),
    Flt(0, 2, 0) }

TextValues == { TENANT_PAYS, StrV(<<"s", "e", "e", " ", "o", "f", "f", "i", "c", "e">>) }

MainKeys ==
  {"base_rent", "security_deposit", "application_fee", "cleaning_fee",
   "holding_fee_percent"}

PassKeys == {"parking_monthly_cost", "wifi_monthly_cost", "pet_rent_monthly"}

\* Keys that are not inputs of the engine: a column it does not know, and
\* columns named like entries the engine computes.
ExtraKeys == {"notes", "total_move_in", "holding_fee", "utilities_label",
              "base_rent_fmt"}

FieldValues(k) ==
  IF k \in MainKeys THEN NumberValues
  ELSE IF k \in PassKeys THEN FewNumberValues
  ELSE IF k = "wifi_device_limit" THEN LimitValues
  ELSE IF k = "utilities_included" THEN FlagValues
  ELSE TextValues

FieldKeys ==
  MainKeys \cup PassKeys \cup ExtraKeys
    \cup {"wifi_device_limit", "utilities_included", "utilities_text"}

\* One key with one value.
Patches == UNION {{k :> v : v \in FieldValues(k)} : k \in FieldKeys}

\* Two rows of the published sheet, as csv.DictReader yields them.
ROW_A1 ==
  << <<<<"U", "n", "i", "t", " ", "I", "D">>,
       StrV(<<"A", "1">>)>>,
     <<<<"S", "t", "r", "e", "e", "t", " ", "A", "d", "d", "r", "e", "s", "s">>,
       StrV(<<"1", "2", " ", "E", "l", "m", " ", "S", "t">>)>>,
     <<<<"B", "a", "s", "e", " ", "R", "e", "n", "t">>,
       StrV(<<"$", "1", ",", "5", "0", "0", ".", "0", "0">>)>>,
     <<<<"S", "e", "c", "u", "r", "i", "t", "y", " ", "D", "e", "p", "o", "s", "i", "t">>,
       StrV(<<"1", "5", "0", "0">>)>>,
     <<<<"A", "p", "p", "l", "i", "c", "a", "t", "i", "o", "n", " ", "F", "e", "e">>,
       StrV(<<"5", "0">>)>>,
     <<<<"C", "l", "e", "a", "n", "i", "n", "g", " ", "F", "e", "e">>,
       StrV(<<"1", "0", "0">>)>>,
     <<<<"H", "o", "l", "d", "i", "n", "g", " ", "F", "e", "e", " ", "P", "e", "r", "c", "e", "n", "t">>,
       StrV(<<"2", "5">>)>>,
     <<<<"U", "t", "i", "l", "i", "t", "i", "e", "s", " ", "I", "n", "c", "l", "u", "d", "e", "d">>,
       StrV(<<"N", "o">>)>>,
     <<<<"U", "t", "i", "l", "i", "t", "i", "e", "s", " ", "T", "e", "x", "t">>,
       StrV(<<"T", "e", "n", "a", "n", "t", " ", "p", "a", "y", "s", " ", "e", "l", "e", "c", "t", "r", "i", "c">>)>>,
     <<<<"W", "i", "f", "i", " ", "D", "e", "v", "i", "c", "e", " ", "L", "i", "m", "i", "t">>,
       StrV(<<"5">>)>> >>

ROW_B2 ==
  << <<<<"u", "n", "i", "t", "_", "i", "d">>,
       StrV(<<" ", "B", "2", " ">>)>>,
     <<<<"B", "a", "s", "e", " ", "R", "e", "n", "t">>,
       StrV(<<"9", "9", "9", ".", "9", "9">>)>>,
     <<<<"H", "o", "l", "d", "i", "n", "g", " ", "F", "e", "e", " ", "P", "e", "r", "c", "e", "n", "t">>,
       StrV(<<"3", "3">>)>>,
     <<<<"U", "t", "i", "l", "i", "t", "i", "e", "s", " ", "I", "n", "c", "l", "u", "d", "e", "d">>,
       StrV(<<"Y", "E", "S">>)>>,
     <<<<"P", "a", "r", "k", "i", "n", "g", " ", "M", "o", "n", "t", "h", "l", "y", " ", "C", "o", "s", "t">>,
       StrV(<<"$", "2", "5">>)>>,
     <<<<"W", "i", "f", "i", " ", "D", "e", "v", "i", "c", "e", " ", "L", "i", "m", "i", "t">>,
       StrV(<<>>)>>,
     <<<<"T", "o", "t", "a", "l", " ", "M", "o", "v", "e", " ", "I", "n">>,
       StrV(<<"s", "e", "e", " ", "o", "f", "f", "i", "c", "e">>)>> >>

U_EMPTY == EmptyDict

\* The unit of the specification's end-to-end example.
U_EXAMPLE ==
  [base_rent |-> IntV(0, <<1, 5, 0, 0>>), security_deposit |-> IntV(0, <<1, 5, 0, 0>>),
   application_fee |-> IntV(0, <<5, 0>>), cleaning_fee |-> IntV(0, <<1, 0, 0>>),
   holding_fee_percent |-> IntV(0, <<2, 5>>)]

U_A1 == _parse_row(ROW_A1).value

U_B2 == _parse_row(ROW_B2).value

U_BIG == [base_rent |-> Flt(0, 1, 13)]

U_TINY ==
  [base_rent |-> FloatV(Dec(0, <<9,9,9,9,9,9,9,9,9,9,9,9,9,9,9>>, -17))]

BaseUnits == {U_EMPTY, U_EXAMPLE, U_A1, U_B2, U_BIG, U_TINY}

\* A base unit with one field set or replaced.
PatchedUnits == {DictUpdate(u, p) : u \in {U_EMPTY, U_A1}, p \in Patches}

Blanks == {NoneV, StrV(<<>>)}

ZERO_RENT_OVERRIDE ==
  DictV([base_rent |-> Flt(0, 0, 0), security_deposit |-> StrV(<<>>),
         cleaning_fee |-> NoneV, notes |-> TENANT_PAYS])

Overrides ==
  {NoneV, DictV(EmptyDict), ZERO_RENT_OVERRIDE}
    \cup {DictV(p) : p \in Patches}
    \cup {DictV(k :> b) : k \in FieldKeys, b \in Blanks}

FewOverrides == {NoneV, DictV(EmptyDict), ZERO_RENT_OVERRIDE}

ComputeCalls ==
  {[fn |-> "compute_unit_totals", unit |-> a[1], overrides |-> a[2]] :
     a \in (BaseUnits \X Overrides) \cup (PatchedUnits \X FewOverrides)}

\* Amounts for _money: whole parts on both sides of the thousands separators,
\* cents and a third decimal on both sides of a half cent, either sign.
WholeParts == {0, 1, 999, 1000, 1234, 999999, 1234567}

CentParts == {0, 1, 49, 50, 99}

MoneyGrid ==
  {Dec(sg, NatOfInt(w * 1000 + c * 10 + m), -3) :
     sg \in {0, 1}, w \in WholeParts, c \in CentParts, m \in 0..9}

\* Amounts written with other exponents, and amounts whose rounded value
\* has Prec digits or more.
MoneyEdges ==
  { Dec(0, <<1, 2, 3, 4>>, 0), Dec(0, <<1, 2, 3, 4, 0, 0>>, -2),
    Dec(0, <<1, 2, 3, 4>>, 3), Dec(0, <<1, 2, 3, 4, 5>>, -1),
    Dec(0, <<4,9,9,9,9,9,9,9,9,9,9,9,9,9,9,9>>, -18),
    Dec(0, <<1>>, 25), Dec(0, <<1>>, 26), Dec(1, <<1>>, 26),
    Dec(0, <<9,9,9,9,9,9,9,9,9,9,9,9,9,9,9,9,9,9,9,9,9,9,9,9,9,9,9,9>>, -2),
    Dec(0, <<9,9,9,9,9,9,9,9,9,9,9,9,9,9,9,9,9,9,9,9,9,9,9,9,9,9,9,9,5>>, -3) }

MoneyCalls == {[fn |-> "_money", value |-> v] : v \in MoneyGrid \cup MoneyEdges}

(***************************************************************************)
(* State                                                                   *)
(***************************************************************************)
VARIABLES
  call,    \* the function being evaluated and the arguments of its caller
  data,    \* compute_unit_totals: the merged record
  result,  \* what the call returned or raised
  sheet,   \* the rows of the published sheet
  cache,   \* data_loader._cache
  resp     \* the last HTTP response of app.py

vars == <<call, data, result, sheet, cache, resp>>

(***************************************************************************)
(* The engine, one call at a time                                          *)
(***************************************************************************)
InitCompute ==
  /\ call \in ComputeCalls \cup MoneyCalls
  /\ data = NoneV
  /\ result = NoneV
  /\ sheet = NoneV
  /\ cache = NoneV
  /\ resp = NoneV

\* ctx = compute_unit_totals(unit, overrides)
Compute ==
  /\ call.fn = "compute_unit_totals"
  /\ result = NoneV
  /\ data' = Merge(call.unit, call.overrides)
  /\ result' = compute_unit_totals(call.unit, call.overrides)
  /\ call' = [call EXCEPT !.unit = UnitAfterMerge(call.unit, call.overrides)]
  /\ UNCHANGED <<sheet, cache, resp>>

\* text = _money(value)
Money ==
  /\ call.fn = "_money"
  /\ result = NoneV
  /\ result' = _money(call.value)
  /\ UNCHANGED <<call, data, sheet, cache, resp>>

NextCompute == Compute \/ Money

SpecCompute == InitCompute /\ [][NextCompute]_vars

(***************************************************************************)
(* src/data_loader.py: the cache                                           *)
(***************************************************************************)
ListV(items) == [t |-> "list", items |-> items]

\* refresh_data: the list parsed from the sheet, or the exception of the
\* request (reached: whether the sheet could be fetched) or of the first
\* row that does not parse.  SHEET_URL is configured.
refresh_data(rows0, reached) ==
  IF ~reached THEN Raise("RequestException")
  ELSE With(rows0, LAMBDA rows :
       With(FirstRaised(Tup([i \in 1..Len(rows) |-> _parse_row(rows[i])])),
            LAMBDA parsed :
         IF parsed.raised THEN parsed
         ELSE Ok(Tup([i \in 1..Len(rows) |-> parsed.value[i].value]))))

\* get_all_units: the units and the cache it leaves (fetches on first call)
get_all_units(cache0, rows, reached) ==
  IF cache0 # NoneV THEN [raised |-> FALSE, value |-> cache0.items, cache |-> cache0]
  ELSE With(refresh_data(rows, reached), LAMBDA r :
         IF r.raised THEN [raised |-> TRUE, exc |-> r.exc, cache |-> cache0]
         ELSE [raised |-> FALSE, value |-> r.value, cache |-> ListV(r.value)])

\* get_unit: the position in units of the first unit whose unit_id, stripped,
\* is the stripped unit_id asked for; 0 for None
get_unit(units0, unit_id0) ==
  With2(units0, StrStrip(unit_id0), LAMBDA units, wanted :
  With({i \in 1..Len(units) :
          StrStrip(Str(DictGet(units[i], "unit_id", StrV(<<>>)))) = wanted},
       LAMBDA found :
    IF found = {} THEN 0 ELSE CHOOSE i \in found : \A j \in found : i <= j))

(***************************************************************************)
(* src/pdf_renderer.py.  The template is not part of the model: a page is  *)
(* the context it was rendered from.                                       *)
(***************************************************************************)
render_html(context) == [t |-> "html", context |-> context]

\* render_pdf: the bytes, or RuntimeError when pisa reports errors
render_pdf(context, converted) ==
  IF converted THEN Ok([t |-> "pdf", html |-> render_html(context)])
  ELSE Raise("RuntimeError")

(***************************************************************************)
(* src/app.py                                                              *)
(***************************************************************************)
numeric_keys ==
  {"base_rent", "security_deposit", "application_fee", "cleaning_fee",
   "holding_fee_percent", "parking_monthly_cost", "wifi_monthly_cost",
   "wifi_device_limit", "pet_rent_monthly", "wsg_monthly"}

\* float(str(v).replace("$", "").replace(",", "")), v kept on ValueError
OverrideNumber(v0) ==
  With(v0, LAMBDA v :
  With(FloatOfText(StrReplace(StrReplace(Str(v), "$", <<>>), ",", <<>>)),
       LAMBDA r : IF r.raised THEN v ELSE r.value))

\* preview, download: "Convert override numeric strings to floats"
ConvertOverrides(overrides0) ==
  With(overrides0, LAMBDA overrides :
    [k \in DOMAIN overrides |->
       IF k \in numeric_keys /\ ~IsBlank(overrides[k])
         THEN OverrideNumber(overrides[k]) ELSE overrides[k]])

\* request.get_json(silent=True) or {}, converted, and then
\* `overrides if overrides else None`
RequestOverrides(json) ==
  With(IF Truthy(json) THEN ConvertOverrides(json.d) ELSE EmptyDict,
       LAMBDA overrides :
    IF DOMAIN overrides # {} THEN DictV(overrides) ELSE NoneV)

\* The list with the unit at position i replaced.
ListWith(units, i, unit) == Tup([j \in 1..Len(units) |-> IF j = i THEN unit ELSE units[j]])

\* preview and download, from get_unit to the computed context: what the
\* request found ("error", "not_found", "computed"), the cache as the
\* request leaves it, and the merged record and result of the computation.
\* The unit handed to compute_unit_totals is the cached dict itself.
ComputeForRequest(cache0, rows, reached, unit_id, json) ==
  With(get_all_units(cache0, rows, reached), LAMBDA all :
    IF all.raised
      THEN [found |-> "error", exc |-> all.exc, cache |-> all.cache,
            data |-> NoneV, result |-> NoneV]
    ELSE With(get_unit(all.value, unit_id), LAMBDA i :
      IF i = 0 \/ ~Truthy(DictV(all.value[i]))
        THEN [found |-> "not_found", cache |-> all.cache,
              data |-> NoneV, result |-> NoneV]
      ELSE With2(all.value[i], RequestOverrides(json), LAMBDA unit, overrides :
        [found  |-> "computed",
         cache  |-> ListV(ListWith(all.value, i, UnitAfterMerge(unit, overrides))),
         data   |-> Merge(unit, overrides),
         result |-> compute_unit_totals(unit, overrides)])))
(***************************************************************************)
(* The requests made                                                       *)
(***************************************************************************)
\* A row whose rent is not a number.
ROW_NA ==
  << <<<<"U", "n", "i", "t", " ", "I", "D">>, StrV(<<"C", "3">>)>>,
     <<<<"B", "a", "s", "e", " ", "R", "e", "n", "t">>, StrV(<<"n", "/", "a">>)>> >>

SHEET_MAIN == <<ROW_A1, ROW_B2>>

SHEET_NA == <<ROW_A1, ROW_NA>>

SHEET_EMPTY == <<>>

Sheets == {SHEET_MAIN, SHEET_NA, SHEET_EMPTY}

\* <unit_id> of the URL: two units of the sheet, one of them written with a
\* blank, and a unit the sheet does not have
ID_A1 == <<"A", "1">>

UnitIds == {ID_A1, <<" ", "B", "2">>, <<"Z", "9">>}

RENT_TEXT == StrV(<<"$", "1", ",", "2", "0", "0", ".", "5", "0">>)

BODY_RENT ==
  DictV([base_rent |-> RENT_TEXT, security_deposit |-> StrV(<<>>),
         cleaning_fee |-> NoneV])

BODY_ABC == DictV([base_rent |-> ABC])

BODY_LIMIT == DictV([wifi_device_limit |-> ABC])

BODY_LABEL ==
  DictV([utilities_included |-> YES, holding_fee_percent |-> IntV(0, <<5, 0>>),
         total_move_in |-> TENANT_PAYS])

\* request.get_json(silent=True): None when the request has no JSON body
Bodies ==
  {NoneV, DictV(EmptyDict), BODY_RENT, BODY_ABC, BODY_LIMIT, BODY_LABEL,
   DictV([base_rent |-> IntV(0, <<0>>)])}
(***************************************************************************)
(* The web application: one action per route                               *)
(***************************************************************************)
Json(status, body) == [status |-> status, json |-> body]

Text(status, body) == [status |-> status, text |-> body]

\* jsonify({"success": False, "error": str(e)}), 500
JsonError(exc) == Json(500, [success |-> FALSE, error |-> exc])

NOT_FOUND == Json(404, [success |-> FALSE, error |-> "Unit not found"])

\* f"Rental_Info_{address}_{unit_num}.pdf".replace(" ", "_")
Filename(ctx) ==
  StrReplace(<<"R","e","n","t","a","l","_","I","n","f","o","_">>
               \o Str(DictGet(ctx, "street_address", StrV(<<"u","n","i","t">>)))
               \o <<"_">> \o Str(DictGet(ctx, "unit_number", StrV(<<>>)))
               \o <<".", "p", "d", "f">>,
             " ", <<"_">>)

\* Whether the sheet can be fetched, asked only when the cache is empty.
Reachable == IF cache = NoneV THEN BOOLEAN ELSE {TRUE}

Init ==
  /\ call = NoneV
  /\ data = NoneV
  /\ result = NoneV
  /\ sheet \in Sheets
  /\ cache = NoneV
  /\ resp = NoneV

\* POST /api/refresh
ApiRefresh ==
  \E reached \in BOOLEAN :
  \E r \in {refresh_data(sheet, reached)} :
    /\ call' = [fn |-> "api_refresh"]
    /\ cache' = IF r.raised THEN cache ELSE ListV(r.value)
    /\ resp' = IF r.raised THEN JsonError(r.exc)
               ELSE Json(200, [success |-> TRUE, count |-> Len(r.value)])
    /\ data' = NoneV
    /\ result' = NoneV
    /\ UNCHANGED sheet

\* GET /api/units
ApiUnits ==
  \E reached \in Reachable :
  \E all \in {get_all_units(cache, sheet, reached)} :
    /\ call' = [fn |-> "api_units"]
    /\ cache' = all.cache
    /\ resp' = IF all.raised THEN JsonError(all.exc)
               ELSE Json(200,
                      [success |-> TRUE,
                       units |-> [i \in 1..Len(all.value) |->
                         [unit_id |-> DictGet(all.value[i], "unit_id", StrV(<<>>)),
                          street_address |->
                            DictGet(all.value[i], "street_address", StrV(<<>>)),
                          unit_number |->
                            DictGet(all.value[i], "unit_number", StrV(<<>>))]]])
    /\ data' = NoneV
    /\ result' = NoneV
    /\ UNCHANGED sheet

\* GET /api/units/<unit_id>
ApiUnit ==
  \E unit_id \in UnitIds, reached \in Reachable :
  \E all \in {get_all_units(cache, sheet, reached)} :
    /\ call' = [fn |-> "api_unit", unit_id |-> unit_id]
    /\ cache' = all.cache
    /\ resp' = IF all.raised THEN JsonError(all.exc)
               ELSE LET i == get_unit(all.value, unit_id) IN
                 IF i = 0 \/ ~Truthy(DictV(all.value[i])) THEN NOT_FOUND
                 ELSE Json(200, [success |-> TRUE, unit |-> all.value[i]])
    /\ data' = NoneV
    /\ result' = NoneV
    /\ UNCHANGED sheet

\* GET, POST /preview/<unit_id>
Preview ==
  \E unit_id \in UnitIds, json \in Bodies, reached \in Reachable :
  \E got \in {ComputeForRequest(cache, sheet, reached, unit_id, json)} :
    /\ call' = [fn |-> "preview", unit_id |-> unit_id, json |-> json]
    /\ cache' = got.cache
    /\ data' = got.data
    /\ result' = got.result
    /\ resp' = CASE got.found = "error" -> Text(500, <<"Error: ", got.exc>>)
                 [] got.found = "not_found" -> Text(404, "Unit not found")
                 [] got.found = "computed" ->
                      IF got.result.raised
                        THEN Text(500, <<"Error: ", got.result.exc>>)
                        ELSE Text(200, render_html(got.result.value))
    /\ UNCHANGED sheet

\* POST /download/<unit_id>
Download ==
  \E unit_id \in UnitIds, json \in Bodies, reached \in Reachable :
  \E got \in {ComputeForRequest(cache, sheet, reached, unit_id, json)} :
  \E converted \in BOOLEAN :
    /\ call' = [fn |-> "download", unit_id |-> unit_id, json |-> json]
    /\ cache' = got.cache
    /\ data' = got.data
    /\ result' = got.result
    /\ resp' = CASE got.found = "error" -> JsonError(got.exc)
                 [] got.found = "not_found" -> NOT_FOUND
                 [] got.found = "computed" ->
                      IF got.result.raised THEN JsonError(got.result.exc)
                      ELSE LET pdf == render_pdf(got.result.value, converted) IN
                        IF pdf.raised THEN JsonError(pdf.exc)
                        ELSE [status |-> 200, mimetype |-> "application/pdf",
                              data |-> pdf.value,
                              filename |-> Filename(got.result.value)]
    /\ UNCHANGED sheet

Next == ApiRefresh \/ ApiUnits \/ ApiUnit \/ Preview \/ Download

Spec == Init /\ [][Next]_vars
(***************************************************************************)
(* Properties of compute_unit_totals and _money                            *)
(***************************************************************************)
Computed == call.fn = "compute_unit_totals" /\ result # NoneV

Returned == Computed /\ ~result.raised

Formatted == call.fn = "_money" /\ result # NoneV

\* The override record of the call as a dict (None: no key).
Given == IF call.overrides = NoneV THEN EmptyDict ELSE call.overrides.d

DOLLAR_ZERO == StrV(<<"$", "0">>)

\* C2: after the merge step, every key of the override whose value is neither
\* None nor "" (0 included) holds the override's value; every key whose
\* override value is None or "", and every key the override lacks, holds the
\* unit's value (and is absent if the unit lacks it); an empty or None
\* override gives the unit record itself; an override of base_rent with 0 is
\* the rent the computation uses.
C2_MergePrecedence ==
  Computed =>
    /\ DOMAIN data = DOMAIN call.unit
                       \cup {k \in DOMAIN Given : Given[k] \notin Blanks}
    /\ \A k \in DOMAIN Given : Given[k] \notin Blanks => data[k] = Given[k]
    /\ \A k \in DOMAIN call.unit :
         (k \notin DOMAIN Given \/ Given[k] \in Blanks) => data[k] = call.unit[k]
    /\ (call.overrides = NoneV \/ DOMAIN Given = {}) => data = call.unit
    /\ ("base_rent" \in DOMAIN Given /\ Given["base_rent"] = Flt(0, 0, 0)
          /\ ~result.raised)
         => result.value.base_rent_fmt = DOLLAR_ZERO

\* An override of 0 replaced the rent of unit A1 while its "" and None left
\* the deposit and the cleaning fee as the unit has them.
C2_Witness ==
  /\ Computed
  /\ call.unit = U_A1
  /\ call.overrides = ZERO_RENT_OVERRIDE
  /\ data.base_rent = Flt(0, 0, 0)
  /\ data.security_deposit = Flt(0, 1500, 0)
  /\ data.cleaning_fee = Flt(0, 100, 0)
  /\ result.value.base_rent_fmt = DOLLAR_ZERO
  /\ result.value.total_move_in_fmt = StrV(<<"$", "1", ",", "6", "5", "0">>)


(***************************************************************************)
(* C4: money formatting                                                    *)
(***************************************************************************)
\* The decimal digits of a natural number.
RECURSIVE NumberText(_)
NumberText(n) ==
  IF n < 10 THEN <<DigitChars[n + 1]>>
  ELSE NumberText(n \div 10) \o <<DigitChars[(n % 10) + 1]>>

\* A natural number with a comma before every group of three digits.
RECURSIVE CommaText(_)
CommaText(n) ==
  IF n < 1000 THEN NumberText(n)
  ELSE CommaText(n \div 1000) \o <<",">>
         \o <<DigitChars[((n \div 100) % 10) + 1], DigitChars[((n \div 10) % 10) + 1],
              DigitChars[(n % 10) + 1]>>

\* The dollar text of an amount of `mills` thousandths (negative: minus of
\* it): cents rounded half up on the magnitude, no cents when they are 00.
DollarText(negative, mills) ==
  LET cents == (mills + 5) \div 10
  IN  <<"$">> \o (IF negative /\ cents # 0 THEN <<"-">> ELSE <<>>)
        \o CommaText(cents \div 100)
        \o (IF cents % 100 = 0 THEN <<>>
            ELSE <<".", DigitChars[((cents \div 10) % 10) + 1],
                   DigitChars[(cents % 10) + 1]>>)

\* What _money gives for amounts written with other exponents and for
\* amounts at the limit of the precision.
EdgeTexts ==
  << <<Dec(0, <<1, 2, 3, 4>>, 0), Ok(<<"$","1",",","2","3","4">>)>>,
     <<Dec(0, <<1, 2, 3, 4, 0, 0>>, -2), Ok(<<"$","1",",","2","3","4">>)>>,
     <<Dec(0, <<1, 2, 3, 4>>, 3), Ok(<<"$","1",",","2","3","4",",","0","0","0">>)>>,
     <<Dec(0, <<1, 2, 3, 4, 5>>, -1), Ok(<<"$","1",",","2","3","4",".","5","0">>)>>,
     <<Dec(0, <<4,9,9,9,9,9,9,9,9,9,9,9,9,9,9,9>>, -18), Ok(<<"$","0">>)>>,
     <<Dec(0, <<1>>, 25),
       Ok(<<"$","1","0",",","0","0","0",",","0","0","0",",","0","0","0",",",
            "0","0","0",",","0","0","0",",","0","0","0",",","0","0","0",",",
            "0","0","0">>)>>,
     <<Dec(0, <<1>>, 26), Raise("InvalidOperation")>>,
     <<Dec(1, <<1>>, 26), Raise("InvalidOperation")>>,
     <<Dec(0, <<9,9,9,9,9,9,9,9,9,9,9,9,9,9,9,9,9,9,9,9,9,9,9,9,9,9,9,9>>, -2),
       Ok(<<"$","9","9",",","9","9","9",",","9","9","9",",","9","9","9",",",
            "9","9","9",",","9","9","9",",","9","9","9",",","9","9","9",",",
            "9","9","9",".","9","9">>)>>,
     <<Dec(0, <<9,9,9,9,9,9,9,9,9,9,9,9,9,9,9,9,9,9,9,9,9,9,9,9,9,9,9,9,5>>, -3),
       Raise("InvalidOperation")>> >>

\* The amounts of at most ten digits written in thousandths.
InGrid == call.value.exponent = -3 /\ Len(call.value.digits) <= 10

DecimalFields ==
  {"base_rent", "security_deposit", "application_fee", "cleaning_fee",
   "holding_fee_percent", "parking_monthly_cost", "wifi_monthly_cost",
   "pet_rent_monthly"}

\* The characters numerals are written with (those of inf and nan included).
NumeralChars ==
  {"0","1","2","3","4","5","6","7","8","9", "+", "-", ".", "e", "E", "_",
   "i", "n", "f", "t", "y", "a", "s", "I", "N", "F", "T", "Y", "A", "S"}
    \cup Whitespace

\* A non-empty text with a character no numeral has.
NotANumber(v) ==
  /\ v.t = "str"
  /\ v.s # <<>>
  /\ \E i \in 1..Len(v.s) : v.s[i] \notin NumeralChars

\* C5: when the merged record holds, under one of the fields coerced to
\* Decimal, a non-empty text that is not a number, compute_unit_totals
\* raises and returns no context.
C5_NotANumberRaises ==
  (/\ Computed
   /\ \E k \in DecimalFields \cap DOMAIN data : NotANumber(data[k]))
    => result.raised /\ "value" \notin DOMAIN result

\* The override base_rent = "abc" on unit A1 raised InvalidOperation.
C5_Witness ==
  /\ Computed
  /\ call.unit = U_A1
  /\ call.overrides = DictV("base_rent" :> ABC)
  /\ data.base_rent = ABC
  /\ result = Raise("InvalidOperation")

(***************************************************************************)
(* C8: context assembly                                                    *)
(***************************************************************************)
\* A value that coerces to a Decimal of at most twenty integer digits (an
\* amount every step of the engine can round to cents).
Coerces(v) ==
  LET d == _d(v)
  IN  ~d.raised /\ Len(d.value.digits) + d.value.exponent <= 20

\* C8: whenever every field coerced to Decimal is absent from the merged
\* record or coerces, compute_unit_totals returns a context and raises
\* nothing, whatever the other fields hold (wifi_device_limit included).
C8_AssemblyNeverRaises ==
  (/\ Computed
   /\ \A k \in DecimalFields \cap DOMAIN data : Coerces(data[k]))
    => ~result.raised

(***************************************************************************)
(* C6: the utilities label                                                 *)
(***************************************************************************)
TrueTexts == {<<"y", "e", "s">>, <<"t", "r", "u", "e">>, <<"1">>}

\* The merged utilities_included, False when absent.
Flag == IF "utilities_included" \in DOMAIN data THEN data.utilities_included
        ELSE BoolV(FALSE)

\* The label when utilities are not included.
OtherLabel == IF "utilities_text" \in DOMAIN data THEN data.utilities_text
              ELSE NOT_INCLUDED

\* C6 as stated: the label is "Included in Rent" exactly when the merged
\* utilities_included is the native true or a text equal, whatever the case
\* of its letters, to "yes", "true" or "1"; otherwise it is utilities_text
\* when the merged record has it and "Not Included" when it has not.
C6_LabelOfTrueOrText ==
  Returned =>
    result.value.utilities_label =
      IF Flag = BoolV(TRUE) \/ (Flag.t = "str" /\ StrLower(Flag.s) \in TrueTexts)
        THEN INCLUDED_IN_RENT ELSE OtherLabel

\* C6, amended: the label is "Included in Rent" exactly when the merged
\* utilities_included is a text that, with the blanks around it removed,
\* equals "yes", "true" or "1" whatever the case of its letters, or is not
\* a text and is truthy (the native true, a number other than 0); otherwise
\* it is utilities_text when the merged record has it and "Not Included"
\* when it has not.
C6_UtilitiesLabel ==
  Returned =>
    result.value.utilities_label =
      IF \/ Flag.t = "str" /\ StrLower(StrStrip(Flag.s)) \in TrueTexts
         \/ Flag.t = "bool" /\ Flag.b
         \/ Flag.t = "int" /\ Flag.digits # <<0>>
         \/ Flag.t = "float" /\ Flag.v.digits # <<0>>
        THEN INCLUDED_IN_RENT ELSE OtherLabel

\* Unit A1 says "Tenant pays electric"; with utilities_included set to
\* " yes " its label is "Included in Rent".
C6_Witness ==
  /\ Returned
  /\ call.overrides = NoneV
  /\ call.unit = DictUpdate(U_A1, "utilities_included"
                                    :> StrV(<<" ", "y", "e", "s", " ">>))
  /\ data.utilities_text = TENANT_PAYS
  /\ result.value.utilities_label = INCLUDED_IN_RENT

(***************************************************************************)
(* C7: absent fields                                                       *)
(***************************************************************************)
\* The entries compute_unit_totals writes into the context.
ComputedNames ==
  {"base_rent_fmt", "first_month_rent_fmt", "last_month_rent_fmt",
   "security_deposit_fmt", "application_fee_fmt", "cleaning_fee_fmt",
   "holding_fee_fmt", "total_move_in_fmt", "remaining_fmt", "total_monthly_fmt",
   "holding_pct_fmt", "first_month_rent", "last_month_rent", "holding_fee",
   "total_move_in", "remaining_after_hold", "total_monthly", "utilities_label",
   "parking_monthly_cost_fmt", "wifi_monthly_cost_fmt", "wifi_device_limit",
   "pet_rent_monthly_fmt"}

\* The documented defaults: 0 for money and count, 25 for the holding
\* percentage, false for the flag.
Defaults ==
  [base_rent |-> IntV(0, <<0>>), security_deposit |-> IntV(0, <<0>>),
   application_fee |-> IntV(0, <<0>>), cleaning_fee |-> IntV(0, <<0>>),
   parking_monthly_cost |-> IntV(0, <<0>>), wifi_monthly_cost |-> IntV(0, <<0>>),
   pet_rent_monthly |-> IntV(0, <<0>>), wifi_device_limit |-> IntV(0, <<0>>),
   holding_fee_percent |-> IntV(0, <<2, 5>>), utilities_included |-> BoolV(FALSE)]

\* The unit with every absent field written out as its default.
Completed(unit) ==
  [k \in DOMAIN unit \cup DOMAIN Defaults |->
     IF k \in DOMAIN unit THEN unit[k] ELSE Defaults[k]]

\* The context of the empty unit.
EMPTY_CONTEXT ==
  [base_rent_fmt |-> DOLLAR_ZERO, first_month_rent_fmt |-> DOLLAR_ZERO,
   last_month_rent_fmt |-> DOLLAR_ZERO, security_deposit_fmt |-> DOLLAR_ZERO,
   application_fee_fmt |-> DOLLAR_ZERO, cleaning_fee_fmt |-> DOLLAR_ZERO,
   holding_fee_fmt |-> DOLLAR_ZERO, total_move_in_fmt |-> DOLLAR_ZERO,
   remaining_fmt |-> DOLLAR_ZERO, total_monthly_fmt |-> DOLLAR_ZERO,
   holding_pct_fmt |-> StrV(<<"2", "5", "%">>),
   first_month_rent |-> Flt(0, 0, 0), last_month_rent |-> Flt(0, 0, 0),
   holding_fee |-> Flt(0, 0, 0), total_move_in |-> Flt(0, 0, 0),
   remaining_after_hold |-> Flt(0, 0, 0), total_monthly |-> Flt(0, 0, 0),
   utilities_label |-> NOT_INCLUDED,
   parking_monthly_cost_fmt |-> DOLLAR_ZERO,
   wifi_monthly_cost_fmt |-> DOLLAR_ZERO,
   wifi_device_limit |-> IntV(0, <<0>>),
   pet_rent_monthly_fmt |-> DOLLAR_ZERO]

C10_EveryFieldPassesThrough ==
  Returned =>
    \A k \in DOMAIN data \ {"wifi_device_limit"} :
      k \in DOMAIN result.value /\ result.value[k] = data[k]

\* The merged record without the fields named like a computed entry that
\* the engine does not read.
Unshadowed ==
  [k \in DOMAIN data \ (ComputedNames \ {"wifi_device_limit"}) |-> data[k]]

\* C10, amended: the context has the keys of the merged record and the
\* computed entries; every key of the merged record that is not the name of
\* a computed entry holds the merged value unchanged; wifi_device_limit
\* holds an integer; a merged field named like another computed entry
\* (total_move_in, holding_fee, utilities_label, base_rent_fmt, ...) is
\* replaced by the computed entry, which is what it would be without that
\* field.
C10_FieldsPassThrough ==
  Returned =>
    /\ DOMAIN result.value = DOMAIN data \cup ComputedNames
    /\ \A k \in DOMAIN data \ ComputedNames : result.value[k] = data[k]
    /\ result.value.wifi_device_limit.t = "int"
    /\ With(compute_unit_totals(Unshadowed, NoneV), LAMBDA clean :
         /\ ~clean.raised
         /\ \A k \in ComputedNames : result.value[k] = clean.value[k])

\* Unit B2 has a column "Total Move In" and an unknown column is added by
\* the override: the context holds the computed total under total_move_in
\* and the unknown field as given.
C10_Witness ==
  /\ Returned
  /\ call.unit = U_B2
  /\ call.overrides = DictV("notes" :> TENANT_PAYS)
  /\ data.total_move_in = StrV(<<"s", "e", "e", " ", "o", "f", "f", "i", "c", "e">>)
  /\ result.value.total_move_in = Flt(0, 199998, -2)
  /\ result.value.notes = TENANT_PAYS
  /\ result.value.unit_id = StrV(<<"B", "2">>)

(***************************************************************************)
(* C1: the move-in total                                                   *)
(***************************************************************************)
\* The Decimal of a merged field, of `default` when the field is absent.
Amount(k, default) ==
  _d(IF k \in DOMAIN data THEN data[k] ELSE default).value

BaseRent == Amount("base_rent", IntV(0, <<0>>))

\* The sums of the move-in total, term by term, with no rounding.
TwoMonths == ExactAdd(BaseRent, BaseRent)

WithDeposit == ExactAdd(TwoMonths, Amount("security_deposit", IntV(0, <<0>>)))

WithApplication == ExactAdd(WithDeposit, Amount("application_fee", IntV(0, <<0>>)))

ExactTotal == ExactAdd(WithApplication, Amount("cleaning_fee", IntV(0, <<0>>)))

\* The total less the holding fee of the context, with no rounding.
ExactRemaining == ExactAdd(ExactTotal, DecNeg(result.value.holding_fee.v))

\* The two months are the merged rent and the two _fmt entries are the
\* money formats of the exact sums.
FormatsAreExact ==
  /\ result.value.first_month_rent = FloatV(BaseRent)
  /\ result.value.last_month_rent = FloatV(BaseRent)
  /\ _money(ExactTotal) = Ok(result.value.total_move_in_fmt.s)
  /\ _money(ExactRemaining) = Ok(result.value.remaining_fmt.s)

\* The context holds the exact sums (as the floats nearest to them) and
\* their money formats.
TotalsAreExact ==
  /\ FormatsAreExact
  /\ result.value.total_move_in = FloatV(ExactTotal)
  /\ result.value.remaining_after_hold = FloatV(ExactRemaining)

\* C1 as stated: for all inputs that coerce, first_month_rent and
\* last_month_rent are the merged base_rent, total_move_in is their sum with
\* the deposit and the two fees, remaining_after_hold is that total less the
\* holding fee, with no rounding, and the two _fmt entries are the money
\* formats of these values.  (Stated on the formats: two sums that differ
\* may have the same nearest float.)
C1_TotalsExactForAll == Returned => FormatsAreExact

\* C1, amended: the same, whenever each sum on the way (twice the rent,
\* plus the deposit, plus the application fee, plus the cleaning fee, less
\* the holding fee), written to the finest decimal place of its terms, has
\* at most 28 digits.
C1_MoveInTotal ==
  (/\ Returned
   /\ \A s \in {TwoMonths, WithDeposit, WithApplication, ExactTotal,
                ExactRemaining} : Len(s.digits) <= 28)
    => TotalsAreExact

\* The unit of the end-to-end example: $375, $4,650, $4,275.
C1_Witness ==
  /\ Returned
  /\ call.unit = U_EXAMPLE
  /\ call.overrides = NoneV
  /\ result.value.holding_fee_fmt = StrV(<<"$", "3", "7", "5">>)
  /\ result.value.total_move_in_fmt = StrV(<<"$", "4", ",", "6", "5", "0">>)
  /\ result.value.remaining_fmt = StrV(<<"$", "4", ",", "2", "7", "5">>)
  /\ result.value.total_move_in = Flt(0, 4650, 0)

(***************************************************************************)
(* C3: the holding fee                                                     *)
(***************************************************************************)
Percent == Amount("holding_fee_percent", IntV(0, <<2, 5>>))

\* base_rent x holding_fee_percent, with no rounding
Product == ExactMul(BaseRent, Percent)

\* A coefficient without its k last digits, one added when the first digit
\* dropped is 5 or more.
HalfUp(digits, k) ==
  IF k <= 0 THEN NatShift(digits, -k)
  ELSE IF k > Len(digits) THEN <<0>>
  ELSE LET kept == IF k = Len(digits) THEN <<0>>
                   ELSE SubSeq(digits, 1, Len(digits) - k)
       IN  IF digits[Len(digits) - k + 1] >= 5 THEN NatAdd(kept, <<1>>)
           ELSE kept

\* Product / 100 in cents, half a cent rounded up in magnitude.
RoundedFee ==
  Dec(Product.sign, HalfUp(Product.digits, -Product.exponent), -2)

FeeIsRounded ==
  /\ result.value.holding_fee = FloatV(RoundedFee)
  /\ _money(RoundedFee) = Ok(result.value.holding_fee_fmt.s)

\* C3 as stated: for all base_rent and holding_fee_percent that coerce (25
\* when the percentage is absent), holding_fee is their product over 100
\* rounded to 2 places, half a cent rounded up.
C3_FeeRoundedForAll == Returned => FeeIsRounded

\* C3, amended: the same (half a cent rounded up in magnitude), whenever the
\* product base_rent x holding_fee_percent has at most 28 digits; 1000 at 25
\* percent gives 250.00 ($250) and 999.99 at 33 percent gives 330.00 ($330).
C3_HoldingFee ==
  Returned =>
    /\ Len(Product.digits) <= 28 => FeeIsRounded
    /\ (DecEq(BaseRent, Dec(0, <<1, 0, 0, 0>>, 0))
          /\ DecEq(Percent, Dec(0, <<2, 5>>, 0)))
         => /\ result.value.holding_fee = Flt(0, 250, 0)
            /\ result.value.holding_fee_fmt = StrV(<<"$", "2", "5", "0">>)
    /\ (DecEq(BaseRent, Dec(0, <<9, 9, 9, 9, 9>>, -2))
          /\ DecEq(Percent, Dec(0, <<3, 3>>, 0)))
         => /\ result.value.holding_fee = Flt(0, 330, 0)
            /\ result.value.holding_fee_fmt = StrV(<<"$", "3", "3", "0">>)

\* A rent of 1234.5 with no percentage given: 25 percent is 308.625, and
\* the fee is 308.63.
C3_Witness ==
  /\ Returned
  /\ call.unit = "base_rent" :> Flt(0, 12345, -1)
  /\ call.overrides = NoneV
  /\ result.value.holding_fee = Flt(0, 30863, -2)
  /\ result.value.holding_fee_fmt = StrV(<<"$", "3", "0", "8", ".", "6", "3">>)

(***************************************************************************)
(* C9: calls are independent                                               *)
(***************************************************************************)
\* The units as the sheet gives them.
Loaded == refresh_data(sheet, TRUE).value

Handled ==
  call # NoneV /\ call.fn \in {"preview", "download"} /\ result # NoneV

====
